---- MODULE Spec2Model ----
(***************************************************************************)
(* Client-side orchestration of AutoViz (static/js/app.js): the AutoVizApp *)
(* object (currentData, currentHeaders, currentChart), the part of the     *)
(* document its handlers read and write, and the requests it has in flight *)
(* to the remote service.  Every step is one run-to-completion piece of a  *)
(* handler: from the dispatched event (or the settled promise) up to the   *)
(* next await or the end of the handler.                                   *)
(***************************************************************************)
EXTENDS Integers, Sequences, FiniteSets, TLC

VARIABLES
  currentData,     \* this.currentData
  currentHeaders,  \* this.currentHeaders
  currentChart,    \* this.currentChart
  dom,             \* the elements of the document the handlers read or write
  reqs,            \* suspended handler activations (requests in flight): how many of each
  event,           \* the event or promise settlement the last step handled
  effects,         \* what the last step sent out: requests, notifications, downloads, ...
  hist             \* history: the order the overlapping uploads were issued in

vars == <<currentData, currentHeaders, currentChart, dom, reqs, event, effects, hist>>

store == <<currentData, currentHeaders, currentChart>>

-----------------------------------------------------------------------------
(* Bounds of the model *)

MaxInFlight == 2   \* suspended handler activations at a time
ExtraRows == 5     \* rows the service holds beyond those it returns, for the longer files

(* JavaScript values, tagged so that a member can hold any of them *)

Null == [t |-> "null"]
Undef == [t |-> "undefined"]
Arr(s) == [t |-> "array", v |-> s]
Obj(o) == [t |-> "object", v |-> o]

\* !v for the tagged values
Falsy(v) == v.t \in {"null", "undefined"}

Min(a, b) == IF a < b THEN a ELSE b

Range(s) == {s[j] : j \in 1..Len(s)}

-----------------------------------------------------------------------------
(* The user's files and what the remote service makes of them.  File k has  *)
(* k columns; file 1 is short, file 2 is longer than the preview.          *)

Files == {1, 2}

AllHeaders == <<"A", "B", "C", "D">>

File(k) == [t |-> "file", id |-> k, name |-> "file" \o ToString(k) \o ".csv", size |-> 1000 * k]

HeadersOf(k) == SubSeq(AllHeaders, 1, Min(k, Len(AllHeaders)))

PreviewRows == 10

NumRowsOf(k) == IF k = 1 THEN 2 ELSE PreviewRows + k

TotalRowsOf(k) == IF k = 1 THEN NumRowsOf(k) ELSE NumRowsOf(k) + ExtraRows

\* cell values include 0, which JavaScript treats as falsy
RowOf(k, i) == [h \in Range(HeadersOf(k)) |-> (i + k) % 3]

DataOf(k) == [i \in 1..NumRowsOf(k) |-> RowOf(k, i)]

ColumnInfoOf(k) ==
  [h \in Range(HeadersOf(k)) |->
     [type |-> IF h = "A" THEN "categorical" ELSE IF h = "D" THEN "datetime" ELSE "numeric"]]

\* members an answer with success set may lack
Missing == {"none", "column_info"}

\* POST /upload answers, for the file of the request: JSON null, a refusal, the
\* dataset, or an answer with success set and a member missing
UploadResults(k) ==
  {Null, [t |-> "object", success |-> FALSE, error |-> "bad file"]} \cup
  { [t |-> "object", success |-> TRUE,
     data |-> IF miss = "data" THEN Undef ELSE Arr(DataOf(k)),
     headers |-> IF miss = "headers" THEN Undef ELSE Arr(HeadersOf(k)),
     column_info |-> IF miss = "column_info" THEN Undef ELSE Obj(ColumnInfoOf(k)),
     total_rows |-> TotalRowsOf(k)]
    : miss \in Missing }

\* the chart member of a POST /generate_chart answer is a string of JSON
ChartPayloads == {"{chart1}", "null", "not json"}

JSONparse(s) ==
  CASE s = "{chart1}" -> [threw |-> FALSE, value |-> [t |-> "object", data |-> 1, layout |-> 1]]
    [] s = "null"     -> [threw |-> FALSE, value |-> Null]
    [] OTHER          -> [threw |-> TRUE, value |-> Undef]

ChartResults ==
  {Null, [t |-> "object", success |-> FALSE, error |-> "cannot chart"]} \cup
  { [t |-> "object", success |-> TRUE, chart |-> c] : c \in ChartPayloads }

-----------------------------------------------------------------------------
(* The document *)

Projections ==
  {"file-info", "chart-config", "export-options", "data-stats", "data-preview",
   "chart-container"}

Button(disabled, textContent) == [disabled |-> disabled, textContent |-> textContent]

\* The labels of the two buttons before their first engagement are the page's.
InitDom ==
  [ hidden |-> Projections,            \* ids whose classList holds "hidden"
    fileName |-> "", fileSize |-> <<>>,
    xOptions |-> <<>>, yOptions |-> <<>>,   \* options after the "Select column..." one
    xAxis |-> "", yAxis |-> "",             \* the selects' values
    totalRows |-> "", totalColumns |-> "",
    numericColumns |-> "", categoricalColumns |-> "",
    tableHeader |-> <<>>, tableBody |-> <<>>,
    plot |-> Null,                          \* what the render surface shows in "plotly-chart"
    browseBtn |-> Button(FALSE, "Browse"),
    generateBtn |-> Button(FALSE, "Generate Chart") ]

Hide(d, id) == [d EXCEPT !.hidden = @ \cup {id}]
Show(d, id) == [d EXCEPT !.hidden = @ \ {id}]

(* Effects a step sends out *)

showNotification(message, type) == [eff |-> "notify", type |-> type, message |-> message]
Fetch(url, body) == [eff |-> "fetch", url |-> url, body |-> body]
Engaged(btn) == [eff |-> "showLoading", btn |-> btn]
Released(btn) == [eff |-> "hideLoading", btn |-> btn]

showLoading(d, btn) == [d EXCEPT ![btn] = Button(TRUE, "Loading...")]

hideLoading(d, btn) == [d EXCEPT ![btn] = Button(FALSE, "Browse")]

-----------------------------------------------------------------------------
(* Projections of an upload answer.  Each yields the document as the code   *)
(* leaves it, and whether it threw on the way.                              *)

Ran(d) == [dom |-> d, threw |-> FALSE]
Threw(d) == [dom |-> d, threw |-> TRUE]

\* error.message of what the runtime throws
TypeErrorMessage == "Cannot read properties"
FetchErrorMessage == "Failed to fetch"
BodyErrorMessage == "Unexpected token"

\* (file.size / 1024).toFixed(1), in tenths of a KB
ToFixed1(size) == (size * 20 + 1024) \div 2048

showFileInfo(d, file, totalRows) ==
  LET d1 == [d EXCEPT !.fileName = file.name,
                      !.fileSize = <<ToFixed1(file.size), totalRows>>]
  IN Ran(Show(Show(Show(d1, "file-info"), "chart-config"), "export-options"))

\* populateColumnSelectors without clearing what the selects hold
populateColumnSelectorsAppending(d, headers, columnInfo) ==
  IF headers.t # "array" THEN Threw(d)
  ELSE LET filled == [d EXCEPT !.xOptions = @ \o headers.v, !.yOptions = @ \o headers.v]
       IN IF Len(headers.v) >= 2
          THEN Ran([filled EXCEPT !.xAxis = headers.v[1], !.yAxis = headers.v[2]])
          ELSE Ran(filled)

populateColumnSelectors(d, headers, columnInfo) ==
  LET cleared == [d EXCEPT !.xOptions = <<>>, !.yOptions = <<>>,
                           !.xAxis = "", !.yAxis = ""]
  IN IF headers.t # "array" THEN Threw(cleared)   \* headers.forEach
     ELSE LET filled == [cleared EXCEPT !.xOptions = headers.v, !.yOptions = headers.v]
          IN IF Len(headers.v) >= 2
             THEN Ran([filled EXCEPT !.xAxis = headers.v[1], !.yAxis = headers.v[2]])
             ELSE Ran(filled)

CountType(columnInfo, type) ==
  Cardinality({h \in DOMAIN columnInfo : columnInfo[h].type = type})

showDataStats(d, result) ==
  LET d1 == [d EXCEPT !.totalRows = ToString(result.total_rows)]
  IN IF result.headers.t # "array" THEN Threw(d1)   \* result.headers.length
     ELSE LET d2 == [d1 EXCEPT !.totalColumns = ToString(Len(result.headers.v))]
          IN IF result.column_info.t # "object" THEN Threw(d2)   \* Object.values
             ELSE LET d3 == [d2 EXCEPT
                               !.numericColumns =
                                  ToString(CountType(result.column_info.v, "numeric")),
                               !.categoricalColumns =
                                  ToString(CountType(result.column_info.v, "categorical"))]
                  IN Ran(Show(d3, "data-stats"))

\* `${row[h] || ""}`
Cell(row, h) ==
  IF h \notin DOMAIN row THEN "" ELSE IF row[h] = 0 THEN "" ELSE ToString(row[h])

\* showDataPreview without slice(0, 10)
showDataPreviewAll(d, data, headers) ==
  IF headers.t # "array" THEN Threw(d)
  ELSE LET d1 == [d EXCEPT !.tableHeader = headers.v]
       IN IF data.t # "array" THEN Threw(d1)
          ELSE LET d2 == [d1 EXCEPT !.tableBody =
                            [i \in 1..Len(data.v) |->
                               [j \in 1..Len(headers.v) |-> Cell(data.v[i], headers.v[j])]]]
               IN Ran(Hide(Show(d2, "data-preview"), "welcome-screen"))

showDataPreview(d, data, headers) ==
  IF headers.t # "array" THEN Threw(d)   \* headers.map
  ELSE LET d1 == [d EXCEPT !.tableHeader = headers.v]
       IN IF data.t # "array" THEN Threw(d1)   \* data.slice
          ELSE LET shown == SubSeq(data.v, 1, Min(PreviewRows, Len(data.v)))
                   d2 == [d1 EXCEPT !.tableBody =
                            [i \in 1..Len(shown) |->
                               [j \in 1..Len(headers.v) |-> Cell(shown[i], headers.v[j])]]]
               IN Ran(Hide(Show(d2, "data-preview"), "welcome-screen"))

-----------------------------------------------------------------------------
(* Suspended activations.  An activation keeps what its closure still needs: *)
(* the file of an upload, the format of an export.  Between await fetch and *)
(* await response.json() (or response.blob()) an activation reads and       *)
(* writes nothing, so the two awaits are one suspension here, settled by    *)
(* the rejection of either or by the answer.                                *)

Formats == {"csv", "json"}

Kinds == {"upload", "generate", "export"}

\* what the closure of a suspended activation keeps
Args(kind) ==
  CASE kind = "upload" -> Files        \* the file, by its id
    [] kind = "generate" -> {0}        \* nothing
    [] kind = "export" -> Formats      \* the format

NoReqs == [kind \in Kinds |-> [a \in Args(kind) |-> 0]]

RECURSIVE Sum(_, _)
Sum(f, S) == IF S = {} THEN 0 ELSE LET x == CHOOSE x \in S : TRUE IN f[x] + Sum(f, S \ {x})

InFlight(kind) == Sum(reqs[kind], Args(kind))

NumInFlight == InFlight("upload") + InFlight("generate") + InFlight("export")

Issue(kind, a) == reqs' = [reqs EXCEPT ![kind][a] = @ + 1]
Settle(kind, a) == reqs[kind][a] > 0 /\ reqs' = [reqs EXCEPT ![kind][a] = @ - 1]

Rejections == {"fetch", "body"}

-----------------------------------------------------------------------------
(* Reading the last step *)

Notifications(es, type) == {j \in 1..Len(es) : es[j].eff = "notify" /\ es[j].type = type}
Fetches(es) == {j \in 1..Len(es) : es[j].eff = "fetch"}
Downloads(es) == {j \in 1..Len(es) : es[j].eff \in {"download", "downloadImage"}}
Engagements(es, btn) == {j \in 1..Len(es) : es[j] = Engaged(btn)}
Releases(es, btn) == {j \in 1..Len(es) : es[j] = Released(btn)}

DatasetStored == ~Falsy(currentData)
ChartStored == ~Falsy(currentChart)

UploadHandled == event.target = "/upload"
UploadSucceeded ==
  /\ UploadHandled
  /\ \E j \in Notifications(effects, "success") :
       effects[j].message = "File uploaded successfully!"
UploadFailed == UploadHandled /\ Notifications(effects, "error") # {}

-----------------------------------------------------------------------------
(* History of the uploads that overlap.  A run of uploads starts as one is  *)
(* issued while none is in flight and ends as the last of them settles.     *)
(* ok: every upload of the run that has settled so far succeeded, and no    *)
(* Reset came in between; last: while ok, the file of the upload issued     *)
(* last in the run.                                                         *)

NoHist == [last |-> 0, ok |-> TRUE]

History ==
  LET ok == /\ hist.ok
            /\ event'.target # "remove-file"
            /\ event'.target = "/upload" => UploadSucceeded'
  IN hist' = IF \A a \in Files : reqs'["upload"][a] = 0 THEN NoHist
             ELSE IF ~ok THEN [last |-> 0, ok |-> FALSE]
             ELSE [last |-> IF \E a \in Files : reqs'["upload"][a] > reqs["upload"][a]
                            THEN CHOOSE a \in Files : reqs'["upload"][a] > reqs["upload"][a]
                            ELSE hist.last,
                   ok |-> TRUE]

-----------------------------------------------------------------------------
(* handleFileUpload *)

\* handleFileUpload without its first line
handleFileUploadUnguarded(file) ==
  /\ NumInFlight < MaxInFlight
  /\ dom' = showLoading(dom, "browseBtn")
  /\ IF file = Undef THEN UNCHANGED reqs ELSE Issue("upload", file.id)
  /\ effects' = <<Engaged("browseBtn"), Fetch("/upload", file)>>
  /\ UNCHANGED store

\* up to the first await: the guard, showLoading and the fetch
handleFileUpload(file) ==
  IF file = Undef
  THEN /\ effects' = <<>>
       /\ UNCHANGED <<store, dom, reqs>>
  ELSE /\ NumInFlight < MaxInFlight
       /\ dom' = showLoading(dom, "browseBtn")
       /\ Issue("upload", file.id)
       /\ effects' = <<Engaged("browseBtn"), Fetch("/upload", file)>>
       /\ UNCHANGED store

\* the try block when an await rejects
UploadRejected(message) ==
  [data |-> currentData, headers |-> currentHeaders, dom |-> dom,
   effects |-> <<>>, threw |-> TRUE, message |-> message]

\* the try block once response.json() has resolved with result: the store, the
\* document and the notifications at its end or at its throw
UploadTry(file, result) ==
  LET before == [data |-> currentData, headers |-> currentHeaders, dom |-> dom,
                 effects |-> <<>>, threw |-> FALSE, message |-> TypeErrorMessage]
  IN IF result = Null THEN [before EXCEPT !.threw = TRUE]   \* result.success
     ELSE IF ~result.success
     THEN [before EXCEPT !.effects = <<showNotification(result.error, "error")>>]
     ELSE LET stored == [before EXCEPT !.data = result.data, !.headers = result.headers]
              p1 == showFileInfo(dom, file, result.total_rows)
              p2 == populateColumnSelectors(p1.dom, result.headers, result.column_info)
              p3 == showDataStats(p2.dom, result)
              p4 == showDataPreview(p3.dom, result.data, result.headers)
          IN IF p2.threw THEN [stored EXCEPT !.dom = p2.dom, !.threw = TRUE]
             ELSE IF p3.threw THEN [stored EXCEPT !.dom = p3.dom, !.threw = TRUE]
             ELSE IF p4.threw THEN [stored EXCEPT !.dom = p4.dom, !.threw = TRUE]
             ELSE [stored EXCEPT !.dom = p4.dom,
                     !.effects = <<showNotification("File uploaded successfully!", "success")>>]

\* hideLoading at the end of the try block instead of in finally
UploadEndNoFinally(t) ==
  /\ currentData' = t.data
  /\ currentHeaders' = t.headers
  /\ dom' = IF t.threw THEN t.dom ELSE hideLoading(t.dom, "browseBtn")
  /\ effects' = t.effects
                \o (IF t.threw
                    THEN <<showNotification("Upload failed: " \o t.message, "error")>>
                    ELSE <<Released("browseBtn")>>)
  /\ UNCHANGED currentChart

\* catch and finally
UploadEnd(t) ==
  /\ currentData' = t.data
  /\ currentHeaders' = t.headers
  /\ dom' = hideLoading(t.dom, "browseBtn")
  /\ effects' = t.effects
                \o (IF t.threw
                    THEN <<showNotification("Upload failed: " \o t.message, "error")>>
                    ELSE <<>>)
                \o <<Released("browseBtn")>>
  /\ UNCHANGED currentChart

\* the request of an upload settles: an await rejects, or the answer arrives
UploadSettled(file, rejected, result) ==
  /\ Settle("upload", file.id)
  /\ event' = [type |-> "settled", target |-> "/upload", detail |-> Null]
  /\ IF rejected = "fetch" THEN UploadEnd(UploadRejected(FetchErrorMessage))
     ELSE IF rejected = "body" THEN UploadEnd(UploadRejected(BodyErrorMessage))
     ELSE UploadEnd(UploadTry(file, result))
  /\ History

-----------------------------------------------------------------------------
(* generateChart *)

ChartTypes == {"bar"}
ColorSchemes == {"default"}
Titles == {"", "Sales"}

\* the controls the code only reads hold what the user last put there
Config(chartType, colorScheme, title) ==
  [chart_type |-> chartType, x_axis |-> dom.xAxis, y_axis |-> dom.yAxis,
   color_scheme |-> colorScheme, title |-> title]

\* generateChart without the X-axis guard
generateChartUnguarded(config) ==
  /\ NumInFlight < MaxInFlight
  /\ dom' = showLoading(dom, "generateBtn")
  /\ Issue("generate", 0)
  /\ effects' = <<Engaged("generateBtn"), Fetch("/generate_chart", config)>>
  /\ UNCHANGED store

\* up to the first await: the X-axis guard, showLoading and the fetch
generateChart(config) ==
  IF config.x_axis = ""
  THEN /\ effects' = <<showNotification("Please select X-axis column", "error")>>
       /\ UNCHANGED <<store, dom, reqs>>
  ELSE /\ NumInFlight < MaxInFlight
       /\ dom' = showLoading(dom, "generateBtn")
       /\ Issue("generate", 0)
       /\ effects' = <<Engaged("generateBtn"), Fetch("/generate_chart", config)>>
       /\ UNCHANGED store

GenerateRejected(message) ==
  [chart |-> currentChart, dom |-> dom, effects |-> <<>>, threw |-> TRUE, message |-> message]

\* the try block once response.json() has resolved with result;
\* plotThrows: whether Plotly.newPlot throws on this chart
GenerateTry(result, plotThrows) ==
  LET before == [chart |-> currentChart, dom |-> dom, effects |-> <<>>,
                 threw |-> FALSE, message |-> TypeErrorMessage]
  IN IF result = Null THEN [before EXCEPT !.threw = TRUE]   \* result.success
     ELSE IF ~result.success
     THEN [before EXCEPT !.effects = <<showNotification(result.error, "error")>>]
     ELSE LET parsed == JSONparse(result.chart)
              stored == [before EXCEPT !.chart = parsed.value]
          IN IF parsed.threw
             THEN [before EXCEPT !.threw = TRUE, !.message = BodyErrorMessage]
             ELSE IF parsed.value = Null
             THEN [stored EXCEPT !.threw = TRUE]   \* this.currentChart.data
             ELSE IF plotThrows
             THEN [stored EXCEPT !.threw = TRUE, !.effects = <<[eff |-> "newPlot"]>>]
             ELSE [stored EXCEPT
                     !.dom = Hide(Show([dom EXCEPT !.plot = parsed.value], "chart-container"),
                                  "welcome-screen"),
                     !.effects = <<[eff |-> "newPlot"],
                                   showNotification("Chart generated successfully!", "success")>>]

\* hideLoading at the end of the try block instead of in finally
GenerateEndNoFinally(t) ==
  /\ currentChart' = t.chart
  /\ dom' = IF t.threw THEN t.dom ELSE hideLoading(t.dom, "generateBtn")
  /\ effects' = t.effects
                \o (IF t.threw
                    THEN <<showNotification("Chart generation failed: " \o t.message, "error")>>
                    ELSE <<Released("generateBtn")>>)
  /\ UNCHANGED <<currentData, currentHeaders>>

\* catch and finally
GenerateEnd(t) ==
  /\ currentChart' = t.chart
  /\ dom' = hideLoading(t.dom, "generateBtn")
  /\ effects' = t.effects
                \o (IF t.threw
                    THEN <<showNotification("Chart generation failed: " \o t.message, "error")>>
                    ELSE <<>>)
                \o <<Released("generateBtn")>>
  /\ UNCHANGED <<currentData, currentHeaders>>

\* the request of a chart generation settles
GenerateSettled(rejected, result, plotThrows) ==
  /\ Settle("generate", 0)
  /\ event' = [type |-> "settled", target |-> "/generate_chart", detail |-> Null]
  /\ IF rejected = "fetch" THEN GenerateEnd(GenerateRejected(FetchErrorMessage))
     ELSE IF rejected = "body" THEN GenerateEnd(GenerateRejected(BodyErrorMessage))
     ELSE GenerateEnd(GenerateTry(result, plotThrows))
  /\ History

-----------------------------------------------------------------------------
(* exportChart, exportData, resetApp *)

ImageWidth == 1200
ImageHeight == 800

\* exportChart asking the render surface whatever is stored
exportChartUnguarded(format, title) ==
  /\ UNCHANGED <<store, dom, reqs>>
  /\ effects' = <<[eff |-> "downloadImage", format |-> "png",
                   width |-> ImageWidth, height |-> ImageHeight,
                   filename |-> IF title = "" THEN "chart" ELSE title],
                  showNotification("Chart exported as PNG", "success")>>

exportChart(format, title) ==
  /\ UNCHANGED <<store, dom, reqs>>
  /\ IF Falsy(currentChart)
     THEN effects' = <<showNotification("No chart to export", "error")>>
     ELSE IF format = "png"
     THEN effects' = <<[eff |-> "downloadImage", format |-> "png",
                        width |-> ImageWidth, height |-> ImageHeight,
                        filename |-> IF title = "" THEN "chart" ELSE title],
                       showNotification("Chart exported as PNG", "success")>>
     ELSE effects' = <<>>

ToUpperCase(format) ==
  CASE format = "csv" -> "CSV" [] format = "json" -> "JSON" [] OTHER -> format

\* exportData without the guard on currentData
exportDataUnguarded(format) ==
  /\ NumInFlight < MaxInFlight
  /\ Issue("export", format)
  /\ effects' = <<Fetch("/export_data/" \o format, Null)>>
  /\ UNCHANGED <<store, dom>>

\* exportData returning on a missing dataset without a word
exportDataSilent(format) ==
  IF Falsy(currentData)
  THEN /\ effects' = <<>>
       /\ UNCHANGED <<store, dom, reqs>>
  ELSE /\ NumInFlight < MaxInFlight
       /\ Issue("export", format)
       /\ effects' = <<Fetch("/export_data/" \o format, Null)>>
       /\ UNCHANGED <<store, dom>>

\* up to the first await
exportData(format) ==
  IF Falsy(currentData)
  THEN /\ effects' = <<showNotification("No data to export", "error")>>
       /\ UNCHANGED <<store, dom, reqs>>
  ELSE /\ NumInFlight < MaxInFlight
       /\ Issue("export", format)
       /\ effects' = <<Fetch("/export_data/" \o format, Null)>>
       /\ UNCHANGED <<store, dom>>

\* the request of an export settles: fetch rejects, or resolves with a status
\* that is not ok, or response.blob() rejects, or the body arrives
ExportOutcomes == {"fetch rejected", "not ok", "body rejected", "ok"}

ExportSettled(format, outcome) ==
  /\ Settle("export", format)
  /\ event' = [type |-> "settled", target |-> "/export_data", detail |-> Null]
  /\ UNCHANGED <<store, dom>>
  /\ effects' =
       CASE outcome = "fetch rejected" ->
              <<showNotification("Export failed: " \o FetchErrorMessage, "error")>>
         [] outcome = "not ok" ->
              <<showNotification("Export failed", "error")>>
         [] outcome = "body rejected" ->
              <<showNotification("Export failed: " \o BodyErrorMessage, "error")>>
         [] outcome = "ok" ->
              <<[eff |-> "download", filename |-> "autoviz_data." \o format],
                showNotification("Data exported as " \o ToUpperCase(format), "success")>>
  /\ History

\* resetApp forgetting the headers
resetAppKeepsHeaders ==
  /\ currentData' = Null
  /\ UNCHANGED currentHeaders
  /\ currentChart' = Null
  /\ dom' = [dom EXCEPT !.hidden = (@ \cup Projections) \ {"welcome-screen"}]
  /\ effects' = <<>>
  /\ UNCHANGED reqs

\* resetApp forgetting the chart
resetAppKeepsChart ==
  /\ currentData' = Null
  /\ currentHeaders' = Null
  /\ UNCHANGED currentChart
  /\ dom' = [dom EXCEPT !.hidden = (@ \cup Projections) \ {"welcome-screen"}]
  /\ effects' = <<>>
  /\ UNCHANGED reqs

resetApp ==
  /\ currentData' = Null
  /\ currentHeaders' = Null
  /\ currentChart' = Null
  /\ dom' = [dom EXCEPT !.hidden = (@ \cup Projections) \ {"welcome-screen"}]
  /\ effects' = <<>>
  /\ UNCHANGED reqs

-----------------------------------------------------------------------------
(* The listeners of initializeEventListeners, and the user's choice of X.   *)
(* The highlight classes of the upload area and the value of the file input *)
(* are written but never read by the code, and are left out of dom.         *)

Dispatched(type, target, detail) ==
  event' = [type |-> type, target |-> target, detail |-> detail]

\* files[0] of a selection or a drop: a file, or undefined when there is none
Picked == {File(k) : k \in Files} \cup {Undef}

\* a disabled button dispatches no click
BrowseClick ==
  /\ ~dom.browseBtn.disabled
  /\ Dispatched("click", "browse-btn", Null)
  /\ effects' = <<[eff |-> "fileInput.click"]>>
  /\ UNCHANGED <<store, dom, reqs>>
  /\ History

FileInputChange(file) ==
  /\ Dispatched("call", "handleFileUpload", file)
  /\ handleFileUpload(file)
  /\ History

Drop(file) ==
  /\ Dispatched("call", "handleFileUpload", file)
  /\ handleFileUpload(file)
  /\ History

RemoveFileClick ==
  /\ Dispatched("click", "remove-file", Null)
  /\ resetApp
  /\ History

GenerateClick(chartType, colorScheme, title) ==
  /\ ~dom.generateBtn.disabled
  /\ Dispatched("click", "generate-chart", Null)
  /\ generateChart(Config(chartType, colorScheme, title))
  /\ History

ExportPngClick(title) ==
  /\ Dispatched("click", "export-png", Null)
  /\ exportChart("png", title)
  /\ History

ExportDataClick(format) ==
  /\ Dispatched("click", "export-" \o format, Null)
  /\ exportData(format)
  /\ History

\* the user chooses among the options of the X-axis select
SelectX(value) ==
  /\ value \in Range(dom.xOptions) \cup {""}
  /\ value # dom.xAxis
  /\ Dispatched("change", "x-axis", Null)
  /\ dom' = [dom EXCEPT !.xAxis = value]
  /\ effects' = <<>>
  /\ UNCHANGED <<store, reqs>>
  /\ History

-----------------------------------------------------------------------------
(* The application after new AutoVizApp() on DOMContentLoaded *)

Init ==
  /\ currentData = Null
  /\ currentHeaders = Null
  /\ currentChart = Null
  /\ dom = InitDom
  /\ reqs = NoReqs
  /\ event = [type |-> "DOMContentLoaded", target |-> "document", detail |-> Null]
  /\ effects = <<>>
  /\ hist = NoHist

Next ==
  \/ BrowseClick
  \/ \E file \in Picked : FileInputChange(file)
  \/ \E file \in Picked : Drop(file)
  \/ RemoveFileClick
  \/ \E ct \in ChartTypes, cs \in ColorSchemes, title \in Titles : GenerateClick(ct, cs, title)
  \/ \E title \in Titles : ExportPngClick(title)
  \/ \E format \in Formats : ExportDataClick(format)
  \/ \E value \in Range(AllHeaders) \cup {""} : SelectX(value)
  \/ \E k \in Files, rejected \in Rejections : UploadSettled(File(k), rejected, Null)
  \/ \E k \in Files : \E result \in UploadResults(k) : UploadSettled(File(k), "no", result)
  \/ \E rejected \in Rejections : GenerateSettled(rejected, Null, FALSE)
  \/ \E result \in ChartResults, plotThrows \in BOOLEAN : GenerateSettled("no", result, plotThrows)
  \/ \E format \in Formats, outcome \in ExportOutcomes : ExportSettled(format, outcome)

Spec == Init /\ [][Next]_vars

\* every request the service was sent settles: there is no cancellation, and
\* the runtime's own transport timeout rejects a request that hangs
UploadCompletes ==
  \/ \E k \in Files, rejected \in Rejections : UploadSettled(File(k), rejected, Null)
  \/ \E k \in Files : \E result \in UploadResults(k) : UploadSettled(File(k), "no", result)

GenerateCompletes ==
  \/ \E rejected \in Rejections : GenerateSettled(rejected, Null, FALSE)
  \/ \E result \in ChartResults, plotThrows \in BOOLEAN : GenerateSettled("no", result, plotThrows)

ExportCompletes == \E format \in Formats, outcome \in ExportOutcomes : ExportSettled(format, outcome)

\* the events the controls depend on, the title and the format held fixed
FairNext ==
  \/ \E file \in Picked : Drop(file)
  \/ RemoveFileClick
  \/ GenerateClick("bar", "default", "")
  \/ ExportPngClick("")
  \/ ExportDataClick("csv")
  \/ UploadCompletes
  \/ GenerateCompletes
  \/ ExportCompletes

FairSpec ==
  /\ Init /\ [][FairNext]_vars
  /\ WF_vars(UploadCompletes) /\ WF_vars(GenerateCompletes) /\ WF_vars(ExportCompletes)

-----------------------------------------------------------------------------
(* C1: once a successful Upload response has been handled, no ChartSpec is  *)
(* stored: the chart generated for the dataset before it is gone.          *)
C1_UploadClearsChart == UploadSucceeded => currentChart = Null

(* C2: GenerateChart invoked while no Dataset is stored sends no request   *)
(* to the remote service.                                                  *)
C2_NoChartRequestWithoutDataset ==
  (event.target = "generate-chart" /\ ~DatasetStored) => Fetches(effects) = {}

(* C3: a step that handles an Upload and ends with an error notification   *)
(* leaves currentData, currentHeaders and currentChart as they were.       *)
C3_FailedUploadKeepsStore == [][UploadFailed' => store' = store]_vars

C3_StoreReplacedBeforeThrow ==
  /\ UploadFailed
  /\ DatasetStored
  /\ \E j \in Notifications(effects, "error") :
       effects[j].message = "Upload failed: " \o TypeErrorMessage

(* C4: every engagement of the BusyGate by an Upload or a GenerateChart is *)
(* released exactly once: a step engages a button only as it suspends an   *)
(* activation on its request, only the step that handles the settlement of *)
(* that request releases it, that step releases it once whatever the       *)
(* outcome, and the release comes last, after the outcome was notified.    *)
BusyGateEffects(btn, url) ==
  LET eng == Engagements(effects, btn)
      rel == Releases(effects, btn)
  IN IF event.target = url
     THEN /\ eng = {}
          /\ rel = {Len(effects)}
          /\ \E j \in 1..(Len(effects) - 1) : effects[j].eff = "notify"
     ELSE /\ rel = {}
          /\ eng \subseteq {1}
          /\ eng # {} => \E j \in Fetches(effects) : effects[j].url = url

BusyGateStep(btn, kind, url) ==
  IF event'.target = url
  THEN \E a \in Args(kind) :
         reqs[kind][a] > 0 /\ reqs'[kind] = [reqs[kind] EXCEPT ![a] = @ - 1]
  ELSE IF effects' # <<>> /\ effects'[1] = Engaged(btn)
  THEN \E a \in Args(kind) : reqs'[kind] = [reqs[kind] EXCEPT ![a] = @ + 1]
  ELSE reqs'[kind] = reqs[kind]

C4_ReleasedOncePerEngagement ==
  /\ [](BusyGateEffects("browseBtn", "/upload") /\
        BusyGateEffects("generateBtn", "/generate_chart"))
  /\ [][ /\ BusyGateStep("browseBtn", "upload", "/upload")
         /\ BusyGateStep("generateBtn", "generate", "/generate_chart") ]_vars

\* an upload whose answer made the projections throw has released the button
C4_Witness ==
  /\ C3_StoreReplacedBeforeThrow
  /\ Releases(effects, "browseBtn") = {Len(effects)}
  /\ InFlight("upload") = 0
  /\ ~dom.browseBtn.disabled

(* C5: Reset can be taken in every reachable state, and right after it the *)
(* data, the headers and the chart are null, every projection of derived   *)
(* data is hidden and the welcome screen is shown.                         *)
C5_ResetReturnsToEmpty ==
  /\ ENABLED RemoveFileClick
  /\ event.target = "remove-file" =>
       /\ currentData = Null /\ currentHeaders = Null /\ currentChart = Null
       /\ Projections \subseteq dom.hidden
       /\ "welcome-screen" \notin dom.hidden

\* Reset out of a rendered chart while a request is in flight
C5_Witness ==
  /\ event.target = "remove-file"
  /\ dom.plot # Null /\ dom.fileName # ""
  /\ NumInFlight > 0
  /\ currentChart = Null /\ "chart-container" \in dom.hidden

(* C6: GenerateChart with an empty X-axis select issues no request, makes  *)
(* exactly one notification, an error, leaves the generate button alone    *)
(* and changes neither the dataset nor the chart.                          *)
C6_EmptyXAxisShortCircuits ==
  [][ (event'.target = "generate-chart" /\ dom.xAxis = "") =>
        /\ effects' = <<showNotification("Please select X-axis column", "error")>>
        /\ reqs' = reqs
        /\ dom' = dom
        /\ store' = store ]_vars

\* with a dataset loaded and the X-axis left unselected
C6_Witness ==
  /\ event.target = "generate-chart"
  /\ dom.xAxis = "" /\ DatasetStored
  /\ Cardinality(Notifications(effects, "error")) = 1
  /\ ~dom.generateBtn.disabled

(* C7: handleFileUpload without a file issues no request, does not engage  *)
(* the BusyGate and changes nothing of the store or the document.          *)
C7_NoFileChangesNothing ==
  [][ (event'.target = "handleFileUpload" /\ event'.detail = Undef) =>
        /\ Fetches(effects') = {} /\ Engagements(effects', "browseBtn") = {}
        /\ reqs' = reqs
        /\ dom' = dom
        /\ store' = store ]_vars

\* from Empty, and the state is Empty still
C7_Witness ==
  /\ event.target = "handleFileUpload" /\ event.detail = Undef
  /\ currentData = Null /\ currentHeaders = Null /\ currentChart = Null
  /\ dom = InitDom /\ NumInFlight = 0
  /\ effects = <<>>

-----------------------------------------------------------------------------
(* The steps that end on a locally detected validation error *)

NoFileStep == event'.target = "handleFileUpload" /\ event'.detail = Undef
NoXAxisStep == event'.target = "generate-chart" /\ dom.xAxis = ""
NoDatasetStep == event'.target \in {"export-csv", "export-json"} /\ ~DatasetStored
NoChartStep == event'.target = "export-png" /\ ~ChartStored

LocalErrorStep == NoFileStep \/ NoXAxisStep \/ NoDatasetStep \/ NoChartStep

StaysLocal ==
  /\ Fetches(effects') = {}
  /\ reqs' = reqs
  /\ dom' = dom
  /\ store' = store

(* C8: every locally detected validation error (Upload without a file,     *)
(* GenerateChart without an X-axis, ExportData without a dataset,          *)
(* ExportChart without a chart) issues no request, changes no state and    *)
(* makes at least one error notification.                                  *)
C8_EveryValidationErrorNotified ==
  [][ LocalErrorStep => (StaysLocal /\ Notifications(effects', "error") # {}) ]_vars

(* C8, amended: every locally detected validation error issues no request  *)
(* and changes no state; GenerateChart without an X-axis, ExportData       *)
(* without a dataset and ExportChart without a chart each make exactly one *)
(* notification, an error, while Upload without a file makes none.         *)
C8_ValidationErrorsStayLocal ==
  [][ LocalErrorStep =>
        /\ StaysLocal
        /\ IF NoFileStep THEN effects' = <<>>
           ELSE Len(effects') = 1 /\ Notifications(effects', "error") = {1} ]_vars

\* ExportData after a Reset took the dataset away
C8_Witness ==
  /\ event.target \in {"export-csv", "export-json"}
  /\ ~DatasetStored /\ dom.fileName # ""
  /\ effects = <<showNotification("No data to export", "error")>>

(* C9: ExportChart while no chart is stored makes an error notification,   *)
(* starts no image download, issues no request and changes no state.       *)
C9_NoChartNoDownload ==
  [][ NoChartStep =>
        /\ effects' = <<showNotification("No chart to export", "error")>>
        /\ Downloads(effects') = {}
        /\ StaysLocal ]_vars

\* after a Reset took away a chart that had been rendered
C9_Witness ==
  /\ event.target = "export-png"
  /\ ~ChartStored /\ dom.plot # Null
  /\ Notifications(effects, "error") = {1}

(* C10: ExportData sends the GET of its format exactly when a dataset is   *)
(* stored as it is invoked, and otherwise only notifies an error; neither  *)
(* it nor the handling of any outcome of the request (download, status not *)
(* ok, transport error) changes the data, the headers or the chart.        *)
C10_ExportDataOnlyWithDataset ==
  [][ /\ \A f \in Formats :
           event'.target = "export-" \o f =>
             /\ store' = store
             /\ IF DatasetStored
                THEN /\ effects' = <<Fetch("/export_data/" \o f, Null)>>
                     /\ reqs' = [reqs EXCEPT !["export"][f] = @ + 1]
                ELSE /\ effects' = <<showNotification("No data to export", "error")>>
                     /\ reqs' = reqs
      /\ event'.target = "/export_data" =>
           /\ store' = store
           /\ InFlight("export")' = InFlight("export") - 1
           /\ Fetches(effects') = {} ]_vars

\* the service answered the export of a stored dataset with a status that is not ok
C10_Witness ==
  /\ event.target = "/export_data"
  /\ DatasetStored
  /\ effects = <<showNotification("Export failed", "error")>>

-----------------------------------------------------------------------------
\* the upload control is engaged by any selection or drop, the generate
\* control by a click, which a disabled button does not dispatch
Engageable(btn) == btn = "browseBtn" \/ ~dom[btn].disabled

(* C11: for the upload control and the generate control, engaging the      *)
(* BusyGate on the control as it is and then invoking the returned release *)
(* leaves the control enabled and with the label it had immediately before *)
(* the engagement.                                                         *)
C11_ReleaseRestoresControl ==
  \A btn \in {"browseBtn", "generateBtn"} :
    Engageable(btn) =>
      LET released == hideLoading(showLoading(dom, btn), btn)[btn]
      IN /\ ~released.disabled
         /\ released.textContent = dom[btn].textContent

(* C12: right after a successful Upload the axis selectors offer exactly   *)
(* the returned headers, in order, whatever they held before; with two or  *)
(* more headers X is the first and Y the second, with fewer both X and Y   *)
(* are unselected.                                                         *)
C12_SelectorsFollowHeaders ==
  UploadSucceeded =>
    LET headers == currentHeaders.v
    IN /\ dom.xOptions = headers
       /\ dom.yOptions = headers
       /\ IF Len(headers) >= 2
          THEN dom.xAxis = headers[1] /\ dom.yAxis = headers[2]
          ELSE dom.xAxis = "" /\ dom.yAxis = ""

\* a file of one column uploaded over a dataset whose chart is stored: the
\* selects held the headers and the choice of the earlier upload
C12_Witness ==
  /\ UploadSucceeded
  /\ ChartStored
  /\ Len(currentHeaders.v) = 1
  /\ dom.xOptions = currentHeaders.v
  /\ dom.xAxis = "" /\ dom.yAxis = ""

(* C13: right after a successful Upload the preview holds min(10, number   *)
(* of returned rows) rows, and they are the first returned rows in their   *)
(* order, whatever total_rows is.                                          *)
C13_PreviewIsFirstRows ==
  UploadSucceeded =>
    LET rows == currentData.v
        headers == currentHeaders.v
    IN /\ Len(dom.tableBody) = (IF Len(rows) < 10 THEN Len(rows) ELSE 10)
       /\ \A i \in 1..Len(dom.tableBody) :
            dom.tableBody[i] = [j \in 1..Len(headers) |-> Cell(rows[i], headers[j])]

\* more rows returned than the preview holds, and more rows in the file still
C13_Witness ==
  /\ UploadSucceeded
  /\ Len(currentData.v) > 10
  /\ Len(dom.tableBody) = 10
  /\ dom.totalRows # ToString(Len(currentData.v))

(* C14: while a request started from a control is in flight the control is *)
(* disabled: the upload control while any Upload is in flight, also one    *)
(* started by drag-and-drop over an earlier one, and the generate control  *)
(* while any GenerateChart is in flight.                                   *)
C14_DisabledWhileInFlight ==
  /\ InFlight("upload") > 0 => dom.browseBtn.disabled
  /\ InFlight("generate") > 0 => dom.generateBtn.disabled

(* C15: when the last of several overlapping Uploads settles, all of them  *)
(* having succeeded with no Reset in between, the stored data and headers  *)
(* are those of the Upload that was issued last, whatever order the        *)
(* answers came in.                                                        *)
C15_LastIssuedUploadStored ==
  [][ ( /\ UploadSucceeded'
        /\ hist.ok
        /\ \A a \in Files : reqs'["upload"][a] = 0 ) =>
      ( /\ currentData' = Arr(DataOf(hist.last))
        /\ currentHeaders' = Arr(HeadersOf(hist.last)) ) ]_vars

GenerateFailed == event.target = "/generate_chart" /\ Notifications(effects, "error") # {}

(* C16: a step that handles a GenerateChart and ends with an error         *)
(* notification (success=false, a transport error, a payload that does not *)
(* parse, an exception of the render surface) leaves the chart, the data   *)
(* and the headers as they were and the chart container as visible as it   *)
(* was.                                                                    *)
C16_FailedChartKeepsStore ==
  [][ GenerateFailed' =>
        /\ store' = store
        /\ ("chart-container" \in dom'.hidden) = ("chart-container" \in dom.hidden) ]_vars

(* C17: if every issued request eventually completes, no control stays     *)
(* disabled forever: the upload control is enabled again and again, and so *)
(* is the generate control, and whenever no request is in flight both      *)
(* controls are enabled.                                                   *)
C17_ControlsEnabledAgain ==
  /\ [](NumInFlight = 0 => (~dom.browseBtn.disabled /\ ~dom.generateBtn.disabled))
  /\ []<>(~dom.browseBtn.disabled)
  /\ []<>(~dom.generateBtn.disabled)

\* the render surface threw on the chart, and the generate control is enabled
\* again with nothing left in flight
C17_Witness ==
  /\ GenerateFailed
  /\ \E j \in 1..Len(effects) : effects[j].eff = "newPlot"
  /\ NumInFlight = 0
  /\ ~dom.generateBtn.disabled /\ ~dom.browseBtn.disabled

(* C18: Reset is stable against late answers: the answer handled right    *)
(* after a Reset, which is the answer to a request issued before it,       *)
(* leaves the data, the headers and the chart null and every projection of *)
(* derived data hidden.                                                    *)
C18_ResetStableAgainstLateAnswers ==
  [][ ( /\ event.target = "remove-file"
        /\ event'.target \in {"/upload", "/generate_chart", "/export_data"} ) =>
      ( /\ currentData' = Null /\ currentHeaders' = Null /\ currentChart' = Null
        /\ Projections \subseteq dom'.hidden ) ]_vars

DataProjections == Projections \ {"chart-container"}

(* C19: projections never outlive the store: while the chart container is  *)
(* visible a ChartSpec is stored, and while any projection of the data     *)
(* (file info, chart config, export options, data stats, data preview) is  *)
(* visible a Dataset is stored.                                            *)
C19_ProjectionsNeedStore ==
  /\ "chart-container" \notin dom.hidden => ChartStored
  /\ DataProjections \ dom.hidden # {} => DatasetStored

====
